---- MODULE Spec2Model ----
(***************************************************************************)
(* Model of monitoring/zabbix_host.py: one invocation of the module's      *)
(* main() against a Zabbix server holding at most one host of the given    *)
(* host_name, followed by a second invocation with the same parameters.    *)
(*                                                                         *)
(* The remote server is the record `remote`; the module parameters are the *)
(* record `params`; the other variables are the locals of main() and of    *)
(* Host.update_host, the log of mutating API calls and the way the         *)
(* invocation ended.                                                       *)
(***************************************************************************)
EXTENDS Integers, Sequences, FiniteSets, TLC

VARIABLES
    remote,            \* the Zabbix server: the host, its groups, templates, interfaces
    params,            \* module.params (and module.check_mode)
    pc,                \* position of the invocation in main()
    run,               \* 1: first invocation, 2: second invocation, same params
    template_ids,      \* main(): template_ids
    group_ids,         \* main(): group_ids
    proxy_id,          \* main(): proxy_id
    exist_interfaces,  \* main(): exist_interfaces (aliased by update_host)
    idx,               \* update_host: position of `for interface in interfaces`
    calls,             \* mutating API calls issued by this invocation, in order
    result,            \* how this invocation ended
    pre,               \* the server as it was when this invocation started
    first,             \* result and calls of the first invocation (set on re-invocation)
    rejectAt           \* the number of the mutating call the server rejects (0: none)

vars == <<remote, params, pc, run, template_ids, group_ids, proxy_id,
          exist_interfaces, idx, calls, result, pre, first, rejectAt>>

----------------------------------------------------------------------------
(* Bounds and the universe of names *)

MaxIfaces == 2

\* host groups, templates and proxies that exist on the server
ExistGroups == {"g1", "g2"}
ExistTemplates == {"t1", "t2"}
ExistProxies == {"p1"}

\* names a playbook may use; gX, tX and pX do not exist on the server
GroupNames == ExistGroups \cup {"gX"}
TemplateNames == ExistTemplates \cup {"tX"}
ProxyNames == ExistProxies \cup {"pX"}

\* proxy=None (the parameter is not supplied)
NoProxy == ""

IfaceTypes == {1, 2}
IfacePorts == {10050, 10051}
IfaceIps == {"10.0.0.1"}

SeqsUpTo(S, n) == UNION {[1..k -> S] : k \in 0..n}

\* an interface as the playbook gives it
DesiredIface == [type : IfaceTypes, port : IfacePorts, ip : IfaceIps]

\* the i-th interface of a host as the server holds it
LiveIface(d, id) == [interfaceid |-> id, type |-> d.type, port |-> d.port, ip |-> d.ip]

LiveIfaces(ds) == [i \in 1..Len(ds) |-> LiveIface(ds[i], i)]

----------------------------------------------------------------------------
(* The server's identifiers *)

GroupId(name) == "gid:" \o name
TemplateId(name) == "tid:" \o name
ProxyId(name) == "pid:" \o name

\* the name of the group with a given id (hostgroup.get returns both)
GroupName(id) == CHOOSE n \in ExistGroups : GroupId(n) = id

NoHost == [exists |-> FALSE, groups |-> {}, templates |-> {}, status |-> 0,
           proxy_hostid |-> "0", interfaces |-> <<>>, nextid |-> 1]

NoResult == [kind |-> "none", changed |-> FALSE, msg |-> "", arg |-> ""]

exit_json(changed, msg) == [kind |-> "exit", changed |-> changed, msg |-> msg, arg |-> ""]

fail_json(msg, arg) == [kind |-> "fail", changed |-> FALSE, msg |-> msg, arg |-> arg]

\* an exception nothing catches: the interpreter prints a traceback, no result record
Traceback(msg) == [kind |-> "error", changed |-> FALSE, msg |-> msg, arg |-> ""]

----------------------------------------------------------------------------
(* Read-only queries of Host *)

\* Host.get_host_groups_by_host_id: the names of the host's groups
get_host_groups_by_host_id == {GroupName(g) : g \in remote.groups}

\* Host.get_host_templates_by_host_id: the ids of the host's linked templates
get_host_templates_by_host_id == remote.templates

\* Host.get_group_ids_by_group_names: hostgroup.get filtered by name
get_group_ids_by_group_names(names) == {GroupId(n) : n \in names \cap ExistGroups}

Range(s) == {s[i] : i \in 1..Len(s)}

\* a comparison of the interfaces that stops at the sets of ports
check_interface_properties_ports(exist_interface_list, interfaces) ==
    {d.port : d \in Range(interfaces)} # {e.port : e \in Range(exist_interface_list)}

\* Host.check_interface_properties, for a supplied list: TRUE when the desired
\* and the live interfaces differ. The sets of ports are compared first; then
\* every live interface is compared with every desired interface of the same
\* port, on each key the desired interface has.
check_interface_properties(exist_interface_list, interfaces) ==
    LET interfaces_port_list == {d.port : d \in Range(interfaces)}
        exist_interface_ports == {e.port : e \in Range(exist_interface_list)}
    IN  \/ interfaces_port_list # exist_interface_ports
        \/ \E e \in Range(exist_interface_list) : \E d \in Range(interfaces) :
              /\ d.port = e.port
              /\ \E key \in DOMAIN d : e[key] # d[key]

\* Host.check_all_properties: "diff" when a property differs, "same" when none
\* does, "raise" when check_interface_properties is reached without an interfaces
\* parameter (len(None) raises TypeError, which nothing catches).
check_all_properties(host_groups, status, has_ifs, interfaces, tids, exist_ifs, pid) ==
    IF host_groups # get_host_groups_by_host_id THEN "diff"
    ELSE IF status # remote.status THEN "diff"
    ELSE IF ~has_ifs THEN "raise"
    ELSE IF check_interface_properties(exist_ifs, interfaces) THEN "diff"
    ELSE IF tids # get_host_templates_by_host_id THEN "diff"
    ELSE IF remote.proxy_hostid # pid THEN "diff"
    ELSE "same"

----------------------------------------------------------------------------
(* Initial states: a server and the parameters of the invocation *)

\* interfaces parameter: not supplied, or a list of at most MaxIfaces interfaces
InterfaceParams ==
    {[given |-> FALSE, list |-> <<>>]}
      \cup {[given |-> TRUE, list |-> l] : l \in SeqsUpTo(DesiredIface, MaxIfaces)}

\* a host on the server: Zabbix keeps at least one group and one interface on it
LiveHosts(LG, LT, LP, LI) ==
    {[exists |-> TRUE, groups |-> {GroupId(n) : n \in g},
      templates |-> {TemplateId(n) : n \in t}, status |-> s,
      proxy_hostid |-> p, interfaces |-> LiveIfaces(l), nextid |-> Len(l) + 1] :
        g \in LG \ {{}}, t \in LT, s \in {0, 1}, p \in LP, l \in LI \ {<<>>}}

Params(DG, DT, DP, DI) ==
    [host_groups : DG, link_templates : DT, proxy : DP,
     has_interfaces : {i.given : i \in DI}, interfaces : {i.list : i \in DI},
     status : {"enabled", "disabled"}, state : {"present", "absent"},
     force : BOOLEAN, clear : BOOLEAN, check_mode : BOOLEAN]

InitOver(DG, DT, DP, DI, LG, LT, LP, LI) ==
    /\ params \in {p \in Params(DG, DT, DP, DI) :
                      [given |-> p.has_interfaces, list |-> p.interfaces] \in DI}
    /\ remote \in {NoHost} \cup LiveHosts(LG, LT, LP, LI)
    /\ pre = remote
    /\ pc = "start"
    /\ run = 1
    /\ template_ids = {}
    /\ group_ids = {}
    /\ proxy_id = "0"
    /\ exist_interfaces = <<>>
    /\ idx = 0
    /\ calls = <<>>
    /\ result = NoResult
    /\ first = [result |-> NoResult, calls |-> <<>>]

\* an agent interface (type 1) on the default port
AgentIface(ip) == [type |-> 1, port |-> 10050, ip |-> ip]

\* every parameter and every part of the host but its interfaces varies: the
\* host has one agent interface, the playbook gives none, the same one, or one
\* with another address
AttrInit ==
    InitOver(SUBSET GroupNames, SUBSET TemplateNames, ProxyNames \cup {NoProxy},
             {[given |-> FALSE, list |-> <<>>],
              [given |-> TRUE, list |-> <<AgentIface("10.0.0.1")>>],
              [given |-> TRUE, list |-> <<AgentIface("10.0.0.2")>>]},
             SUBSET ExistGroups, SUBSET ExistTemplates,
             {"0"} \cup {ProxyId(n) : n \in ExistProxies},
             {<<AgentIface("10.0.0.1")>>})

\* every list of interfaces, desired and live, with one desired group, no
\* template and no proxy
IfaceInit ==
    InitOver({{"g1"}}, {{}}, {NoProxy}, InterfaceParams,
             {{"g1"}, {"g1", "g2"}}, {{}}, {"0"},
             SeqsUpTo(DesiredIface, MaxIfaces))

\* the server accepts every call; the parameters and the host are drawn from
\* the two families above
Init ==
    /\ rejectAt = 0
    /\ (AttrInit \/ IfaceInit)

\* the most mutating calls one invocation issues: two host.update, one call for
\* each desired interface and one hostinterface.delete
MaxCalls == MaxIfaces + 3

\* every set of templates and either proxy, desired and live, with one desired
\* group, one desired agent interface and a live interface of the other type
TemplateInit ==
    InitOver({{"g1"}}, SUBSET ExistTemplates, ExistProxies \cup {NoProxy},
             {[given |-> TRUE, list |-> <<AgentIface("10.0.0.1")>>]},
             {{"g1"}}, SUBSET ExistTemplates,
             {"0"} \cup {ProxyId(n) : n \in ExistProxies},
             {<<[type |-> 2, port |-> 10051, ip |-> "10.0.0.1"]>>})

\* the server rejects one mutating call of the invocation, the rejectAt-th; the
\* parameters and the host are drawn from the family of interface lists and
\* the family of templates, where every mutating call of the module is issued,
\* outside check mode
InitFail ==
    /\ rejectAt \in 1..MaxCalls
    /\ (IfaceInit \/ TemplateInit)
    /\ ~params.check_mode

----------------------------------------------------------------------------
(* main(): parameters, and the lookups before the host is looked at *)

\* main(): status = 1 if status == "disabled" else 0
StatusCode(status) == IF status = "disabled" THEN 1 ELSE 0

\* the server rejects the next mutating call (the zabbix-api client raises)
Rejected == rejectAt = Len(calls) + 1

\* an except branch that takes the rejected call for a success
api_failure_swallowed(msg) == exit_json(TRUE, msg)

\* the except branch around every mutating call: fail_json with a message that
\* ends with the error the client raised
api_failure(msg) == fail_json(msg, "rejected")

\* the invocation ends with result r
Finish(r) ==
    /\ result' = r
    /\ pc' = "done"

\* Host.get_template_ids: the first template the server does not know, if any
MissingTemplates == params.link_templates \ ExistTemplates

\* a check of the groups that never objects
MissingGroups_none == {}

\* Host.check_host_group_exist: the groups the server does not know
MissingGroups == params.host_groups \ ExistGroups

\* Host.get_proxyid_by_proxy_name finds no proxy of that name
MissingProxy == params.proxy # NoProxy /\ params.proxy \notin ExistProxies

\* main(): get_template_ids, get_group_ids_by_group_names, get_proxyid_by_proxy_name
\* and is_host_exist. A name the server does not know ends the invocation.
Resolve ==
    /\ pc = "start"
    /\ UNCHANGED <<remote, params, run, exist_interfaces, idx, calls, pre, first, rejectAt>>
    /\ IF MissingTemplates # {}
       THEN /\ \E t \in MissingTemplates : Finish(fail_json("Template not found", t))
            /\ UNCHANGED <<template_ids, group_ids, proxy_id>>
       ELSE IF MissingGroups # {}
       THEN /\ \E g \in MissingGroups : Finish(fail_json("Hostgroup not found", g))
            /\ template_ids' = {TemplateId(t) : t \in params.link_templates}
            /\ UNCHANGED <<group_ids, proxy_id>>
       ELSE IF MissingProxy
       THEN /\ Finish(fail_json("Proxy not found", params.proxy))
            /\ template_ids' = {TemplateId(t) : t \in params.link_templates}
            /\ group_ids' = get_group_ids_by_group_names(params.host_groups)
            /\ UNCHANGED proxy_id
       ELSE /\ template_ids' = {TemplateId(t) : t \in params.link_templates}
            /\ group_ids' = get_group_ids_by_group_names(params.host_groups)
            /\ proxy_id' = IF params.proxy = NoProxy THEN "0" ELSE ProxyId(params.proxy)
            /\ pc' = "resolved"
            /\ UNCHANGED result

\* host.delete that leaves the host where it is
host_delete_noop(r) == r

\* host.delete on the server: the host is gone
host_delete(r) == [NoHost EXCEPT !.nextid = r.nextid]

\* Host.is_host_exist
is_host_exist == remote.exists

----------------------------------------------------------------------------
(* The host exists *)

\* a method that never looks at check mode
dry_run_never(check_mode) == FALSE

\* `if self._module.check_mode: self._module.exit_json(changed=True)`, the first
\* statement of delete_host, add_host and update_host and the last one before
\* host.update in link_or_clear_template
dry_run(check_mode) == check_mode

\* Host.delete_host and main() after it: state=absent and the host exists
DeleteHost ==
    /\ pc = "resolved"
    /\ is_host_exist
    /\ params.state = "absent"
    /\ UNCHANGED <<params, run, template_ids, group_ids, proxy_id, exist_interfaces,
                   idx, pre, first, rejectAt>>
    /\ IF dry_run(params.check_mode)
       THEN /\ Finish(exit_json(TRUE, ""))
            /\ UNCHANGED <<remote, calls>>
       ELSE /\ calls' = Append(calls, [op |-> "host.delete", hostid |-> "h", ok |-> ~Rejected])
            /\ IF Rejected
               THEN /\ Finish(api_failure("Failed to delete host"))
                    /\ UNCHANGED remote
               ELSE /\ remote' = host_delete(remote)
                    /\ Finish(exit_json(TRUE, "Successfully delete host"))

\* a test of force that never blocks
update_blocked_never(force) == FALSE

\* main(): `if not force`: the host exists and force=no
update_blocked(force) == ~force

\* an update that starts with Host.update_host and never links the templates
after_diff_update == "update"

\* main(): when check_all_properties reports a difference, the first call is
\* host.link_or_clear_template; host.update_host follows it
after_diff == "link"

\* main(): state=present and the host exists: the two guards, hostinterface.get
\* and check_all_properties
CheckHost ==
    /\ pc = "resolved"
    /\ is_host_exist
    /\ params.state # "absent"
    /\ UNCHANGED <<remote, params, run, template_ids, group_ids, proxy_id, idx, calls,
                   pre, first, rejectAt>>
    /\ IF group_ids = {}
       THEN /\ Finish(fail_json("Specify at least one group for updating host", ""))
            /\ UNCHANGED exist_interfaces
       ELSE IF update_blocked(params.force)
       THEN \* fail_json(changed=False, result=...): a failure with no msg
            /\ Finish(fail_json("", ""))
            /\ UNCHANGED exist_interfaces
       ELSE /\ exist_interfaces' = remote.interfaces
            /\ LET diff == check_all_properties(params.host_groups, StatusCode(params.status),
                               params.has_interfaces, params.interfaces, template_ids,
                               remote.interfaces, proxy_id)
               IN  IF diff = "raise" THEN Finish(Traceback("TypeError"))
                   ELSE IF diff = "same" THEN Finish(exit_json(FALSE, ""))
                   ELSE pc' = after_diff /\ UNCHANGED result

\* the templates to link, as if clear were never set
templates_to_link_union(clear, exist_template_ids, tids) == exist_template_ids \cup tids

\* Host.link_or_clear_template: the templates the request links
templates_to_link(clear, exist_template_ids, tids) ==
    IF clear THEN tids ELSE exist_template_ids \cup tids

\* Host.link_or_clear_template: the templates the request unlinks and clears
templates_to_clear(clear, exist_template_ids, tids) ==
    IF clear THEN exist_template_ids \ tids ELSE {}

\* the groups to set, as if clear were always set
groups_to_set_desired(clear, gids, exist_host_groups_ids) == gids

\* Host.update_host: the groups the request sets
groups_to_set(clear, gids, exist_host_groups_ids) ==
    IF clear THEN gids ELSE gids \cup exist_host_groups_ids

\* no interface is ever handed to hostinterface.delete
remove_interface_ids_none(interface_list_copy) == {}

\* Host.update_host: the interfaces hostinterface.delete is called with
remove_interface_ids(interface_list_copy) ==
    {e.interfaceid : e \in Range(interface_list_copy)}

\* Host.link_or_clear_template(host_id, template_ids, clear) for the existing host:
\* host.update with the templates to link and, with clear, the templates to clear
link_or_clear_template ==
    /\ pc = "link"
    /\ UNCHANGED <<params, run, template_ids, group_ids, proxy_id, exist_interfaces,
                   idx, pre, first, rejectAt>>
    /\ LET exist_template_ids == get_host_templates_by_host_id
           request_str ==
               [op |-> "host.update",
                templates |-> templates_to_link(params.clear, exist_template_ids, template_ids),
                templates_clear |->
                    templates_to_clear(params.clear, exist_template_ids, template_ids),
                ok |-> ~Rejected]
       IN  IF dry_run(params.check_mode)
           THEN /\ Finish(exit_json(TRUE, ""))
                /\ UNCHANGED <<remote, calls>>
           ELSE /\ calls' = Append(calls, request_str)
                /\ IF Rejected
                   THEN /\ Finish(api_failure("Failed to link template to host"))
                        /\ UNCHANGED remote
                   ELSE /\ remote' = [remote EXCEPT !.templates = request_str.templates]
                        /\ pc' = "update"
                        /\ UNCHANGED result

\* Host.update_host up to host.update: the check-mode exit, then the groups
\* (with clear=no the host's groups are added to the desired ones), the status
\* and the proxy
update_host ==
    /\ pc = "update"
    /\ UNCHANGED <<params, run, template_ids, proxy_id, exist_interfaces, pre, first, rejectAt>>
    /\ LET exist_host_groups_ids == get_group_ids_by_group_names(get_host_groups_by_host_id)
           gids == groups_to_set(params.clear, group_ids, exist_host_groups_ids)
       IN  IF dry_run(params.check_mode)
           THEN /\ Finish(exit_json(TRUE, ""))
                /\ UNCHANGED <<remote, group_ids, idx, calls>>
           ELSE
           /\ group_ids' = gids
           /\ calls' = Append(calls, [op |-> "host.update", groups |-> gids,
                                      status |-> StatusCode(params.status),
                                      proxy_hostid |-> proxy_id, ok |-> ~Rejected])
           /\ IF Rejected
              THEN /\ Finish(api_failure("Failed to update host"))
                   /\ UNCHANGED <<remote, idx>>
              ELSE /\ remote' = [remote EXCEPT !.groups = gids,
                                               !.status = StatusCode(params.status),
                                               !.proxy_hostid = proxy_id]
                   /\ IF params.interfaces # <<>>
                      THEN pc' = "interfaces" /\ idx' = 1 /\ UNCHANGED result
                      ELSE /\ Finish(exit_json(TRUE, "Successfully update host"))
                           /\ UNCHANGED idx

\* Host.update_host, the inner loop: the position in exist_interface_list of
\* the first interface of type t, 0 if there is none
FirstOfType(s, t) ==
    IF \E j \in 1..Len(s) : s[j].type = t
    THEN CHOOSE j \in 1..Len(s) : s[j].type = t /\ \A k \in 1..(j - 1) : s[k].type # t
    ELSE 0

\* a list that keeps the interface that was matched
RemoveAt_keep(s, j) == s

\* interface_list_copy.remove(exist_interface): the list without position j
RemoveAt(s, j) == [k \in 1..(Len(s) - 1) |-> IF k < j THEN s[k] ELSE s[k + 1]]

\* Host.update_host, one turn of `for interface in interfaces`: the first live
\* interface of the same type still in exist_interface_list is updated and taken
\* off that list (interface_list_copy is the same list); without one, the
\* interface is created
update_interface ==
    /\ pc = "interfaces"
    /\ idx <= Len(params.interfaces)
    /\ UNCHANGED <<params, run, template_ids, group_ids, proxy_id, pre, first, rejectAt>>
    /\ LET interface == params.interfaces[idx]
           j == FirstOfType(exist_interfaces, interface.type)
           id == IF j = 0 THEN remote.nextid ELSE exist_interfaces[j].interfaceid
           interface_str == LiveIface(interface, id)
       IN  /\ calls' = Append(calls,
                  [op |-> IF j = 0 THEN "hostinterface.create" ELSE "hostinterface.update",
                   interface |-> interface_str, ok |-> ~Rejected])
           /\ IF Rejected
              THEN /\ Finish(api_failure("Failed to update host"))
                   /\ UNCHANGED <<remote, exist_interfaces, idx>>
              ELSE /\ idx' = idx + 1
                   /\ UNCHANGED <<pc, result>>
                   /\ IF j = 0
                      THEN /\ remote' = [remote EXCEPT
                                  !.interfaces = Append(@, interface_str),
                                  !.nextid = @ + 1]
                           /\ UNCHANGED exist_interfaces
                      ELSE /\ remote' = [remote EXCEPT !.interfaces =
                                  [k \in 1..Len(@) |->
                                      IF @[k].interfaceid = id THEN interface_str ELSE @[k]]]
                           /\ exist_interfaces' = RemoveAt(exist_interfaces, j)

\* Host.update_host after the loop: the live interfaces left in the list are
\* deleted in one hostinterface.delete, and main() reports the update
remove_interfaces ==
    /\ pc = "interfaces"
    /\ idx > Len(params.interfaces)
    /\ UNCHANGED <<params, run, template_ids, group_ids, proxy_id, exist_interfaces,
                   idx, pre, first, rejectAt>>
    /\ LET ids == remove_interface_ids(exist_interfaces)
       IN  IF ids = {}
           THEN /\ Finish(exit_json(TRUE, "Successfully update host"))
                /\ UNCHANGED <<remote, calls>>
           ELSE /\ calls' = Append(calls, [op |-> "hostinterface.delete",
                                           ids |-> ids, ok |-> ~Rejected])
                /\ IF Rejected
                   THEN /\ Finish(api_failure("Failed to update host"))
                        /\ UNCHANGED remote
                   ELSE /\ remote' = [remote EXCEPT !.interfaces =
                               SelectSeq(@, LAMBDA e : e.interfaceid \notin ids)]
                        /\ Finish(exit_json(TRUE, "Successfully update host"))

----------------------------------------------------------------------------
(* The host does not exist *)

\* a test of the interfaces that lets an empty list through
no_interfaces_never(interfaces) == FALSE

\* main(): `not interfaces or (interfaces and len(interfaces) == 0)`: no
\* interfaces parameter, or an empty list
no_interfaces(interfaces) == interfaces = <<>>

\* main(), the else branch of `if is_host_exist` (taken whatever state is): the
\* two guards and Host.add_host
add_host ==
    /\ pc = "resolved"
    /\ ~is_host_exist
    /\ UNCHANGED <<params, run, template_ids, group_ids, proxy_id, exist_interfaces,
                   idx, pre, first, rejectAt>>
    /\ IF group_ids = {}
       THEN /\ Finish(fail_json("Specify at least one group for creating host", ""))
            /\ UNCHANGED <<remote, calls>>
       ELSE IF no_interfaces(params.interfaces)
       THEN /\ Finish(fail_json("Specify at least one interface for creating host", ""))
            /\ UNCHANGED <<remote, calls>>
       ELSE IF dry_run(params.check_mode)
       THEN /\ Finish(exit_json(TRUE, ""))
            /\ UNCHANGED <<remote, calls>>
       ELSE /\ calls' = Append(calls, [op |-> "host.create", groups |-> group_ids,
                                       status |-> StatusCode(params.status),
                                       interfaces |-> params.interfaces,
                                       proxy_hostid |-> proxy_id, ok |-> ~Rejected])
            /\ IF Rejected
               THEN /\ Finish(api_failure("Failed to create host"))
                    /\ UNCHANGED remote
               ELSE /\ remote' =
                         [exists |-> TRUE, groups |-> group_ids, templates |-> {},
                          status |-> StatusCode(params.status), proxy_hostid |-> proxy_id,
                          interfaces |-> [i \in 1..Len(params.interfaces) |->
                               LiveIface(params.interfaces[i], remote.nextid + i - 1)],
                          nextid |-> remote.nextid + Len(params.interfaces)]
                    /\ pc' = "created"
                    /\ UNCHANGED result

\* main(): host.link_or_clear_template(host_id, template_ids) after add_host.
\* The method takes (host_id, template_id_list, clear): the call raises
\* TypeError before the method runs, and nothing catches it.
link_new_host ==
    /\ pc = "created"
    /\ Finish(Traceback("TypeError"))
    /\ UNCHANGED <<remote, params, run, template_ids, group_ids, proxy_id,
                   exist_interfaces, idx, calls, pre, first, rejectAt>>

----------------------------------------------------------------------------
(* A second invocation *)

\* the playbook runs again with the same parameters after an invocation that
\* returned a result; nothing else has touched the server
Reinvoke ==
    /\ pc = "done"
    /\ run = 1
    /\ result.kind = "exit"
    /\ run' = 2
    /\ pc' = "start"
    /\ first' = [result |-> result, calls |-> calls]
    /\ pre' = remote
    /\ template_ids' = {}
    /\ group_ids' = {}
    /\ proxy_id' = "0"
    /\ exist_interfaces' = <<>>
    /\ idx' = 0
    /\ calls' = <<>>
    /\ result' = NoResult
    /\ UNCHANGED <<remote, params, rejectAt>>

Next ==
    \/ Resolve
    \/ DeleteHost
    \/ CheckHost
    \/ link_or_clear_template
    \/ update_host
    \/ update_interface
    \/ remove_interfaces
    \/ add_host
    \/ link_new_host
    \/ Reinvoke

Spec == Init /\ [][Next]_vars

\* the module against a server that rejects a call
SpecFail == InitFail /\ [][Next]_vars

----------------------------------------------------------------------------
(* Vocabulary of the properties *)

\* the invocation has ended
Done == pc = "done"

\* the invocation ended with a result record, changed or not
Exited(changed) == Done /\ result.kind = "exit" /\ result.changed = changed

\* every name the playbook refers to exists on the server
NamesKnown ==
    /\ \A g \in params.host_groups : g \in ExistGroups
    /\ \A t \in params.link_templates : t \in ExistTemplates
    /\ params.proxy = NoProxy \/ params.proxy \in ExistProxies

\* the operations of the mutating calls issued so far
Ops == {calls[i].op : i \in 1..Len(calls)}

\* the server's ids of the desired groups and templates, and of the proxy
DesiredGroupIds == {GroupId(g) : g \in params.host_groups}
DesiredTemplateIds == {TemplateId(t) : t \in params.link_templates}
DesiredProxyId == IF params.proxy = NoProxy THEN "0" ELSE ProxyId(params.proxy)

\* an update of the existing host that went through, outside check mode
Updated ==
    /\ pre.exists
    /\ params.state = "present"
    /\ ~params.check_mode
    /\ Exited(TRUE)

----------------------------------------------------------------------------
(* C1 *)

\* a non-empty list of interfaces, no two of them on the same port
PlainInterfaces ==
    /\ params.has_interfaces
    /\ params.interfaces # <<>>
    /\ \A i, j \in 1..Len(params.interfaces) :
           i # j => params.interfaces[i].port # params.interfaces[j].port

\* C1: idempotence. After an invocation with state=present that returned a
\* result, a second invocation with the same parameters, with nothing else
\* touching the server, issues no mutating call and reports changed=False, in
\* replace mode and in merge mode. Stated outside check mode and for a plain
\* list of interfaces, where the comparison of interfaces has nothing to object.
C1_Idempotence ==
    (run = 2 /\ params.state = "present" /\ ~params.check_mode /\ PlainInterfaces)
        => /\ calls = <<>>
           /\ Done => Exited(FALSE)

----------------------------------------------------------------------------
(* C2 *)

\* C2: state=absent for a host that does not exist is a no-op: no mutating
\* call, the server unchanged, and no failure, whatever groups and interfaces
\* are supplied (the names used all exist).
C2_AbsentAbsentNoOp ==
    (params.state = "absent" /\ ~pre.exists /\ NamesKnown)
        => /\ calls = <<>>
           /\ remote = pre
           /\ result.kind \in {"none", "exit"}

----------------------------------------------------------------------------
(* C3 *)

\* the one call of a deletion that went through
DeleteCall == [op |-> "host.delete", hostid |-> "h", ok |-> TRUE]

\* C3 as claimed: state=absent for a host that exists, outside check mode,
\* deletes the host and reports changed=True for every value of the other
\* parameters, names the server does not know included.
C3_AlwaysDeletes ==
    (Done /\ pre.exists /\ params.state = "absent" /\ ~params.check_mode)
        => /\ calls = <<DeleteCall>>
           /\ ~remote.exists
           /\ Exited(TRUE)

\* C3 as amended: state=absent for a host that exists, outside check mode,
\* issues host.delete for the host and nothing else, leaves no host and reports
\* changed=True, for every value of the other parameters whose group, template
\* and proxy names all exist on the server.
C3_DeletesWhenNamesKnown ==
    (pre.exists /\ params.state = "absent" /\ ~params.check_mode /\ NamesKnown)
        => /\ \A i \in 1..Len(calls) : calls[i] = DeleteCall
           /\ Done => /\ calls = <<DeleteCall>>
                      /\ ~remote.exists
                      /\ Exited(TRUE)

\* a host with groups, templates and a proxy was deleted by an invocation that
\* supplied none of them and force=no
C3_Witness ==
    /\ Done /\ pre.exists /\ params.state = "absent" /\ ~params.check_mode
    /\ pre.templates # {} /\ pre.proxy_hostid # "0"
    /\ params.host_groups = {} /\ ~params.has_interfaces /\ ~params.force
    /\ ~remote.exists
    /\ Exited(TRUE)

----------------------------------------------------------------------------
(* C4 *)

\* C4: the create path. For a host that does not exist, state=present, at
\* least one group and one interface, all names known, outside check mode: the
\* invocation issues host.create with the desired groups, status, interfaces and
\* proxy, links the desired templates, and ends with changed=True; the host then
\* exists with exactly the desired templates.
C4_CreatePath ==
    (Done /\ ~pre.exists /\ params.state = "present" /\ ~params.check_mode
          /\ NamesKnown /\ params.host_groups # {} /\ params.interfaces # <<>>)
        => /\ Exited(TRUE)
           /\ remote.exists
           /\ remote.templates = DesiredTemplateIds
           /\ calls # <<>>
           /\ calls[1].op = "host.create"
           /\ calls[1].groups = DesiredGroupIds
           /\ calls[1].status = StatusCode(params.status)
           /\ calls[1].interfaces = params.interfaces
           /\ calls[1].proxy_hostid = DesiredProxyId

----------------------------------------------------------------------------
(* C5, C6 *)

\* the template request of the update
LinkCall == calls[1]

\* C5: replace mode. After an update of an existing host with clear=yes that
\* went through, the host's groups are exactly the desired groups and its
\* linked templates exactly the desired templates; the templates that were
\* linked and are not desired were passed as templates_clear.
C5_ReplaceExact ==
    (Updated /\ params.clear)
        => /\ remote.groups = DesiredGroupIds
           /\ remote.templates = DesiredTemplateIds
           /\ LinkCall.op = "host.update"
           /\ LinkCall.templates = DesiredTemplateIds
           /\ LinkCall.templates_clear = pre.templates \ DesiredTemplateIds

\* a replace that removed a group and a template and added a template
C5_Witness ==
    /\ Updated /\ params.clear
    /\ pre.groups \ DesiredGroupIds # {}
    /\ pre.templates \ DesiredTemplateIds # {}
    /\ DesiredTemplateIds \ pre.templates # {}
    /\ remote.templates = DesiredTemplateIds

\* C6: merge mode. After an update of an existing host with clear=no that went
\* through, the host's groups are its previous groups and the desired ones, its
\* linked templates its previous templates and the desired ones; nothing that
\* was on the host is removed or cleared.
C6_MergeUnion ==
    (Updated /\ ~params.clear)
        => /\ remote.groups = pre.groups \cup DesiredGroupIds
           /\ remote.templates = pre.templates \cup DesiredTemplateIds
           /\ LinkCall.op = "host.update"
           /\ LinkCall.templates_clear = {}

\* a merge that kept a group and a template the playbook does not name and
\* added one of each
C6_Witness ==
    /\ Updated /\ ~params.clear
    /\ pre.groups \ DesiredGroupIds # {}
    /\ DesiredGroupIds \ pre.groups # {}
    /\ pre.templates \ DesiredTemplateIds # {}
    /\ DesiredTemplateIds \ pre.templates # {}
    /\ remote.groups = pre.groups \cup DesiredGroupIds

----------------------------------------------------------------------------
(* C7 *)

\* an invocation that gets to compare the host with the playbook: the host
\* exists, state=present, a group is given, force=yes, a list of interfaces is
\* supplied, every name is known; outside check mode
Compared ==
    /\ Done
    /\ pre.exists
    /\ params.state = "present"
    /\ params.host_groups # {}
    /\ params.force
    /\ params.has_interfaces
    /\ NamesKnown
    /\ ~params.check_mode

\* the host's groups, status, templates and proxy are the desired ones
AttrsEqual ==
    /\ pre.groups = DesiredGroupIds
    /\ pre.status = StatusCode(params.status)
    /\ pre.templates = DesiredTemplateIds
    /\ pre.proxy_hostid = DesiredProxyId

\* live interface e agrees with desired interface d on every field d supplies
Agrees(e, d) == \A key \in DOMAIN d : e[key] = d[key]

\* every desired interface agrees with a live interface of its type
AgreeByType ==
    \A d \in Range(params.interfaces) :
        \E e \in Range(pre.interfaces) : e.type = d.type /\ Agrees(e, d)

\* the desired and the live interfaces use the same ports, and a desired and a
\* live interface on the same port agree
AgreeByPort ==
    /\ \A d \in Range(params.interfaces) : \E e \in Range(pre.interfaces) : e.port = d.port
    /\ \A e \in Range(pre.interfaces) : \E d \in Range(params.interfaces) : d.port = e.port
    /\ \A d \in Range(params.interfaces) : \A e \in Range(pre.interfaces) :
           e.port = d.port => Agrees(e, d)

\* the invocation found nothing to do / applied an update
Unchanged == Exited(FALSE) /\ calls = <<>> /\ remote = pre
Applied == Exited(TRUE) /\ calls # <<>> /\ LinkCall.op = "host.update"

----------------------------------------------------------------------------
(* C8, C9 *)

\* the hostinterface.update and hostinterface.create calls issued so far
IfaceCalls ==
    SelectSeq(calls, LAMBDA c : c.op \in {"hostinterface.update", "hostinterface.create"})

\* the ids of the interfaces the host had when the invocation started
PreIds == {pre.interfaces[i].interfaceid : i \in 1..Len(pre.interfaces)}

\* the interface the host had under this id
PreIface(id) == CHOOSE e \in Range(pre.interfaces) : e.interfaceid = id

\* how many of the first n interfaces of a list are of type t
CountType(list, n, t) == Cardinality({i \in 1..n : list[i].type = t})

\* an update of the existing host with a non-empty list of interfaces, under way
\* or finished
UpdatingInterfaces ==
    /\ pre.exists
    /\ params.state = "present"
    /\ ~params.check_mode
    /\ params.interfaces # <<>>

\* C8: interface convergence by type. In an update with a non-empty list, the
\* k-th desired interface is sent as hostinterface.update under the id of a live
\* interface of its type that no earlier desired interface took, when there is
\* one, and as hostinterface.create otherwise; no live interface is taken
\* twice; after the update the host holds each desired interface under the id
\* it was sent with, so it has at least as many interfaces of each type as the
\* playbook names.
C8_InterfacesByType ==
    UpdatingInterfaces =>
        LET ic == IfaceCalls
            n == Len(params.interfaces)
        IN  /\ Len(ic) <= n
            /\ \A k \in 1..Len(ic) :
                 LET d == params.interfaces[k]
                     id == ic[k].interface.interfaceid
                 IN  /\ Agrees(ic[k].interface, d)
                     /\ \A m \in 1..(k - 1) : ic[m].interface.interfaceid # id
                     /\ IF CountType(pre.interfaces, Len(pre.interfaces), d.type)
                             > CountType(params.interfaces, k - 1, d.type)
                        THEN /\ ic[k].op = "hostinterface.update"
                             /\ id \in PreIds
                             /\ PreIface(id).type = d.type
                        ELSE /\ ic[k].op = "hostinterface.create"
                             /\ id \notin PreIds
            /\ Exited(TRUE) =>
                 /\ Len(ic) = n
                 /\ \A k \in 1..n : ic[k].interface \in Range(remote.interfaces)
                 /\ \A t \in IfaceTypes :
                        CountType(params.interfaces, n, t)
                          <= CountType(remote.interfaces, Len(remote.interfaces), t)

\* two desired interfaces of one type on a host that had one of that type: the
\* first was updated in place, the second created
C8_Witness ==
    /\ UpdatingInterfaces
    /\ Exited(TRUE)
    /\ Len(params.interfaces) = 2
    /\ params.interfaces[1].type = params.interfaces[2].type
    /\ IfaceCalls[1].op = "hostinterface.update"
    /\ IfaceCalls[2].op = "hostinterface.create"
    /\ IfaceCalls[1].interface.interfaceid \in PreIds

\* the live interfaces no desired interface took: those of a type beyond the
\* number of desired interfaces of that type
Unmatched ==
    \E t \in IfaceTypes :
        CountType(pre.interfaces, Len(pre.interfaces), t)
          > CountType(params.interfaces, Len(params.interfaces), t)

\* the ids the host's interfaces have now
LiveIds == {remote.interfaces[i].interfaceid : i \in 1..Len(remote.interfaces)}

\* C9 as claimed: in merge mode (clear=no) an update issues no
\* hostinterface.delete and every interface the host had remains on it.
C9_MergeKeepsInterfaces ==
    (Updated /\ ~params.clear)
        => /\ "hostinterface.delete" \notin Ops
           /\ PreIds \subseteq LiveIds

\* C9 as amended: unmatched live interfaces are removed whenever the playbook
\* names at least one interface, in replace mode and in merge mode alike: after
\* such an update the host has exactly as many interfaces of each type as the
\* playbook names, and hostinterface.delete was issued exactly when a live
\* interface was left unmatched. When the playbook names no interface, no
\* interface call is issued and the host's interfaces are as they were.
C9_RemovedWhenListGiven ==
    Updated =>
        IF params.interfaces = <<>>
        THEN /\ Ops \subseteq {"host.update"}
             /\ remote.interfaces = pre.interfaces
        ELSE /\ \A t \in IfaceTypes :
                    CountType(remote.interfaces, Len(remote.interfaces), t)
                      = CountType(params.interfaces, Len(params.interfaces), t)
             /\ ("hostinterface.delete" \in Ops) = Unmatched
             /\ LiveIds \cap PreIds =
                    {IfaceCalls[k].interface.interfaceid : k \in 1..Len(IfaceCalls)} \cap PreIds

\* a merge-mode update that deleted an interface of a type the playbook does
\* not name
C9_Witness ==
    /\ Updated /\ ~params.clear
    /\ Unmatched
    /\ "hostinterface.delete" \in Ops
    /\ ~(PreIds \subseteq LiveIds)

----------------------------------------------------------------------------
(* C10 *)

\* the failure names a template, group or proxy of the playbook that the
\* server does not know
NamesMissingEntity ==
    \/ /\ result.msg = "Template not found"
       /\ result.arg \in params.link_templates /\ result.arg \notin ExistTemplates
    \/ /\ result.msg = "Hostgroup not found"
       /\ result.arg \in params.host_groups /\ result.arg \notin ExistGroups
    \/ /\ result.msg = "Proxy not found"
       /\ result.arg = params.proxy /\ result.arg \notin ExistProxies

\* C10: a name in host_groups, link_templates or proxy that does not exist on
\* the server is fatal and free of side effects: the invocation ends in a
\* failure whose message names a missing group, template or proxy, before any
\* mutating call; the server is as it was.
C10_MissingEntityFatal ==
    ~NamesKnown
        => /\ calls = <<>>
           /\ remote = pre
           /\ pc \in {"start", "done"}
           /\ Done => result.kind = "fail" /\ NamesMissingEntity

\* an update of an existing host that names a known and an unknown group ended
\* in the failure that names the unknown one
C10_Witness ==
    /\ Done
    /\ pre.exists /\ params.state = "present" /\ ~params.check_mode
    /\ params.host_groups = {"g1", "gX"}
    /\ pre.groups # {GroupId("g1")}
    /\ result = fail_json("Hostgroup not found", "gX")

----------------------------------------------------------------------------
(* C11: a rejected call ends the invocation *)

\* the positions in the log of the calls with one of the operations ops
CallsOf(ops) == {i \in 1..Len(calls) : calls[i].op \in ops}

\* the positions in the log of the host.update calls that carry the field f
UpdatesWith(f) == {i \in CallsOf({"host.update"}) : f \in DOMAIN calls[i]}

\* the server has rejected a call of this invocation
SomeRejected == \E i \in 1..Len(calls) : ~calls[i].ok

\* C11: when the server rejects a mutating call, that call is the last one of
\* the invocation, which ends with a failure record whose message carries the
\* error; and no call is issued twice: at most one host.create, one
\* host.delete, one host.update for the templates, one host.update for the
\* groups, one hostinterface.delete, and one hostinterface call for each
\* desired interface, no two of them for the same interface.
C11_ApiFailureTerminal ==
    /\ \A i \in 1..Len(calls) :
           ~calls[i].ok =>
               /\ i = Len(calls)
               /\ Done
               /\ result.kind = "fail"
               /\ result.msg # ""
               /\ result.arg = "rejected"
    /\ Cardinality(CallsOf({"host.create"})) <= 1
    /\ Cardinality(CallsOf({"host.delete"})) <= 1
    /\ Cardinality(CallsOf({"hostinterface.delete"})) <= 1
    /\ Cardinality(UpdatesWith("templates")) <= 1
    /\ Cardinality(UpdatesWith("groups")) <= 1
    /\ Cardinality(CallsOf({"hostinterface.update", "hostinterface.create"}))
           <= Len(params.interfaces)
    /\ \A i, j \in CallsOf({"hostinterface.update", "hostinterface.create"}) :
           calls[i].interface.interfaceid = calls[j].interface.interfaceid => i = j

\* the server rejects a call after it has accepted the two host.update calls
C11_Witness ==
    /\ Done
    /\ Len(calls) >= 3
    /\ ~calls[Len(calls)].ok
    /\ result.kind = "fail"

----------------------------------------------------------------------------
(* C12: missing required input *)

\* state=present and a required input is missing: no group, or no interface
\* for a host that does not exist
MissingInput ==
    /\ params.state = "present"
    /\ \/ params.host_groups = {}
       \/ ~pre.exists /\ params.interfaces = <<>>

\* C12: with state=present, an invocation that is given no group, or no
\* interface for a host that does not exist, never issues a mutating call and
\* leaves the server as it was (no host is created), and it ends with a failure
\* record that has a message.
C12_MissingInputRejected ==
    MissingInput =>
        /\ calls = <<>>
        /\ remote = pre
        /\ pc \in {"start", "resolved", "done"}
        /\ Done => result.kind = "fail" /\ result.msg # ""

\* the host does not exist, a group is given and no interface: the invocation
\* has failed on the missing interface
C12_Witness ==
    /\ Done
    /\ MissingInput
    /\ params.host_groups # {}
    /\ ~remote.exists
    /\ result = fail_json("Specify at least one interface for creating host", "")

----------------------------------------------------------------------------
(* C13: an update without the interfaces parameter *)

\* the host exists, state=present, a group is given and the playbook has no
\* interfaces parameter
UpdateWithoutInterfaces ==
    /\ pre.exists
    /\ params.state = "present"
    /\ params.host_groups # {}
    /\ ~params.has_interfaces

\* C13: an update of an existing host without the interfaces parameter never
\* ends in an unhandled error (it ends with changed=True, changed=False or a
\* failure record), issues no hostinterface call and leaves the host's
\* interfaces as they were.
C13_NoInterfacesParam ==
    UpdateWithoutInterfaces =>
        /\ result.kind # "error"
        /\ Ops \cap {"hostinterface.create", "hostinterface.update",
                     "hostinterface.delete"} = {}
        /\ remote.interfaces = pre.interfaces

----------------------------------------------------------------------------
(* C14: the order of the calls of an update, and no compensation *)

\* the call at position i of the log is the one for the k-th desired interface
ForDesired(i, k) ==
    /\ calls[i].op \in {"hostinterface.update", "hostinterface.create"}
    /\ \A f \in DOMAIN params.interfaces[k] :
           calls[i].interface[f] = params.interfaces[k][f]

\* the server shows what the accepted call at position i of the log asked for
EffectRemains(i) ==
    IF calls[i].op = "hostinterface.delete"
    THEN \A e \in Range(remote.interfaces) : e.interfaceid \notin calls[i].ids
    ELSE IF calls[i].op \in {"hostinterface.update", "hostinterface.create"}
    THEN calls[i].interface \in Range(remote.interfaces)
    ELSE IF "templates" \in DOMAIN calls[i]
    THEN remote.templates = calls[i].templates
    ELSE /\ remote.groups = calls[i].groups
         /\ remote.status = calls[i].status
         /\ remote.proxy_hostid = calls[i].proxy_hostid

\* C14: the mutating calls of an update of an existing host come in this
\* order: host.update with the templates, host.update with groups, status and
\* proxy, one hostinterface.update or hostinterface.create for each desired
\* interface in the order of the list, and then at most one
\* hostinterface.delete. What an accepted call did stays on the server
\* whatever happens to a later call, and an invocation with a rejected call
\* ends with a failure record.
C14_UpdateOrderNoRollback ==
    (pre.exists /\ params.state = "present") =>
        /\ Len(calls) <= Len(params.interfaces) + 3
        /\ \A i \in 1..Len(calls) :
               /\ i = 1 => calls[i].op = "host.update" /\ "templates" \in DOMAIN calls[i]
               /\ i = 2 => calls[i].op = "host.update" /\ "groups" \in DOMAIN calls[i]
               /\ (i >= 3 /\ i <= Len(params.interfaces) + 2) => ForDesired(i, i - 2)
               /\ i = Len(params.interfaces) + 3 =>
                      /\ calls[i].op = "hostinterface.delete"
                      /\ params.interfaces # <<>>
               /\ calls[i].ok => EffectRemains(i)
        /\ SomeRejected => Done /\ result.kind = "fail"

\* the server rejects the hostinterface.delete of an update after it has
\* accepted every call before it: the templates, the proxy and the new
\* interface are on the server
C14_Witness ==
    /\ Done
    /\ pre.exists
    /\ params.state = "present"
    /\ Len(calls) = Len(params.interfaces) + 3
    /\ ~calls[Len(calls)].ok
    /\ result.kind = "fail"
    /\ remote.templates # pre.templates
    /\ remote.proxy_hostid # pre.proxy_hostid
    /\ Len(remote.interfaces) > Len(pre.interfaces)

----------------------------------------------------------------------------
(* C15: force=no *)

\* the host exists, state=present, a group is given and force=no
ForceNo ==
    /\ pre.exists
    /\ params.state = "present"
    /\ params.host_groups # {}
    /\ ~params.force

----------------------------------------------------------------------------
(* C16: check mode *)

\* the update of an existing host finds a difference: in groups or status, or,
\* with an interfaces parameter, in templates, proxy or interfaces
Differs ==
    \/ pre.groups # DesiredGroupIds
    \/ pre.status # StatusCode(params.status)
    \/ params.has_interfaces /\ ~(AttrsEqual /\ AgreeByPort)

\* the parameters and the host the invocation started from lead to a create,
\* an update or a delete
WouldMutate ==
    /\ NamesKnown
    /\ IF pre.exists
       THEN \/ params.state = "absent"
            \/ params.host_groups # {} /\ params.force /\ Differs
       ELSE params.host_groups # {} /\ params.interfaces # <<>>

\* C16: in check mode an invocation never issues a mutating call and the
\* server stays as it was; it reports changed=True exactly when the parameters
\* and the host lead to a create, an update or a delete, which are exactly the
\* cases where an invocation outside check mode issues a mutating call.
C16_CheckModeNoEffect ==
    /\ params.check_mode => calls = <<>> /\ remote = pre
    /\ (Done /\ params.check_mode) => (Exited(TRUE) <=> WouldMutate)
    /\ (Done /\ ~params.check_mode) => (calls # <<>> <=> WouldMutate)

\* check mode reports changed=True for an update of an existing host and
\* leaves the host as it was
C16_Witness ==
    /\ Done
    /\ params.check_mode
    /\ pre.exists
    /\ params.state = "present"
    /\ Exited(TRUE)
    /\ calls = <<>>
    /\ remote = pre
====
